---- MODULE Spec2Model ----
(***************************************************************************)
(* A model of the persistence layer of 10x-healthy-meal: RecipeService     *)
(* (src/src/lib/services/recipe.service.ts) and DietaryPreferencesService  *)
(* (src/unnamed/part_000) running against the tables of                    *)
(* src/supabase/migrations/20251013120000_initial_schema.sql.              *)
(*                                                                         *)
(* Every service method is cut at its awaits: one action per call to the   *)
(* store, so that two callers interleave exactly where two requests can.   *)
(* A single statement of the store is atomic.  Every call to the store may *)
(* also fail (connection loss, timeout), which the services turn into a    *)
(* thrown Error.                                                           *)
(***************************************************************************)
EXTENDS Integers, Sequences, FiniteSets, TLC

\* ------------------------------------------------------------------ bounds

\* Rows the recipes table may hold.
MaxRecipes == 2
\* Successful updates counted per recipe before no further update starts.
MaxUpdates == 2
\* The same, where an update in flight is overtaken twice.
MaxOvertaken == 3
\* Highest preferences version after which no further upsert starts.
MaxVersion == 3

\* Concurrent requests.
Callers == {"c1", "c2"}
\* auth.users ids.
Owners == {"U", "V"}
Titles == {"Pasta", "pasta"}
Contents == {"boil water"}
\* The values now() takes when a recipe is deleted
Times == {1, 2}

\* ------------------------------------------------------------------ state

VARIABLES
    recipes,      \* public.recipes: a sequence of rows, the id is the position
    updatesDone,  \* history: successful updateRecipe calls per recipe id
    prefs,        \* public.dietary_preferences: a sequence of rows, id = position
    ingredients,  \* public.forbidden_ingredients: per preferences id, how many
                  \* rows hold each ingredient_name
    upsertsDone,  \* history: successful replacing upserts per owner
    call,         \* per caller: the service call in flight
    ret           \* what the step just taken returned to its caller, if it returned

vars == <<recipes, updatesDone, prefs, ingredients, upsertsDone, call, ret>>

rstore == <<recipes, updatesDone>>
pstore == <<prefs, ingredients, upsertsDone>>

\* deleted_at IS NULL
Null == 0

\* The outcomes of a service call: the three Errors the services throw
\* ('NOT_FOUND', 'DUPLICATE_TITLE', and any other message) and success
NOT_FOUND == "NOT_FOUND"
DUPLICATE_TITLE == "DUPLICATE_TITLE"
STORAGE_ERROR == "STORAGE_ERROR"
OK == "OK"

\* SupabaseConstants.ERROR_CODES, and the code of a store call that fails for
\* a reason outside the data (connection loss, timeout)
PGRST116 == "PGRST116"
UNIQUE_VIOLATION == "23505"
CONNECTION_FAILURE == "08006"
NoCode == "none"

RecipeIds == 1..MaxRecipes

Idle == [pc |-> "idle"]
NoRet == [op |-> "none", outcome |-> "none", code |-> NoCode]

\* ------------------------------------------------------- the recipes table

\* The table without its unique constraint
NoUniqueViolation(rows, userId, title, exceptId) == FALSE

\* constraint recipes_user_id_title_key unique (user_id, title): 23505 when
\* any other row, soft-deleted or not, holds the pair.
UniqueViolation(rows, userId, title, exceptId) ==
    \E i \in 1..Len(rows) :
        /\ i # exceptId
        /\ rows[i].user_id = userId
        /\ rows[i].title = title

\* transformToDTO: the row without user_id and deleted_at
transformToDTO(id, row) ==
    [id |-> id, title |-> row.title, content |-> row.content,
     update_counter |-> row.update_counter]

\* The rows of .eq('id').eq('user_id').is('deleted_at', null)
LiveRow(rows, userId, recipeId) ==
    /\ recipeId \in 1..Len(rows)
    /\ rows[recipeId].user_id = userId
    /\ rows[recipeId].deleted_at = Null

\* checkForDuplicateTitle's query: ids of the non-deleted rows of the user
\* with the title, without excludeId (0: none given)
DuplicateMatches(rows, userId, title, excludeId) ==
    {i \in 1..Len(rows) :
        /\ rows[i].user_id = userId
        /\ rows[i].title = title
        /\ rows[i].deleted_at = Null
        /\ i # excludeId}

\* .single() yields a row only when exactly one matches (PGRST116 otherwise)
checkForDuplicateTitle(rows, userId, title, excludeId) ==
    Cardinality(DuplicateMatches(rows, userId, title, excludeId)) = 1

\* Callers inside updateRecipe for the recipe
UpdatesInFlight(recipeId) ==
    {q \in Callers : /\ call[q].pc \in {"update_check", "update_write"}
                     /\ call[q].recipeId = recipeId}

\* Fewer than max updates of the recipe are done or in flight
CanUpdate(recipeId, max) ==
    updatesDone[recipeId] + Cardinality(UpdatesInFlight(recipeId)) < max

\* Callers between createRecipe's pre-check and its insert
InsertsInFlight == {q \in Callers : call[q].pc = "create_insert"}

\* Caller p stands at pc, and no response is waiting to be handed over
Ready(p, pc) == /\ ret = NoRet
                /\ call[p].pc = pc

\* error.message of the store's error object, by its code
RawText(code) ==
    IF code = UNIQUE_VIOLATION
    THEN "duplicate key value violates unique constraint"
    ELSE IF code = PGRST116
    THEN "JSON object requested, multiple (or no) rows returned"
    ELSE "connection to server was lost"

\* The message of the Error a call ends with, in the parts it is put together
\* from: `Failed to ...: ${error.message}` for a store error that is not
\* classified, the fixed text of the outcome otherwise; deleteRecipe is taken
\* to throw a fixed text.  Nothing for a call that returns.
thrown(r) ==
    IF r.outcome = OK THEN <<>>
    ELSE IF r.outcome = STORAGE_ERROR /\ r.op # "delete"
    THEN <<"Failed to ", r.op, ": ", RawText(r.code)>>
    ELSE <<r.outcome>>

\* The call of p ends and r goes back to its caller
Return(p, r) == /\ ret' = r @@ [message |-> thrown(r)]
                /\ call' = [call EXCEPT ![p] = Idle]

\* The call of p goes on to its next await
Await(p, c) == /\ ret' = NoRet
               /\ call' = [call EXCEPT ![p] = c]

\* An error handling without the branch on 23505
classifyGeneric(code) == STORAGE_ERROR

\* The Error createRecipe and updateRecipe throw for the error of their write:
\* 'DUPLICATE_TITLE' for 23505, a 'Failed to ...' message for any other code
classify(code) ==
    IF code = UNIQUE_VIOLATION THEN DUPLICATE_TITLE ELSE STORAGE_ERROR

\* ---------------------------------------------------------- createRecipe

\* createRecipe up to its first await: the duplicate pre-check
CreateRecipeCheck(p, userId, title, content, fail) ==
    /\ Ready(p, "idle")
    /\ Len(recipes) + Cardinality(InsertsInFlight) < MaxRecipes
    /\ UNCHANGED <<recipes, updatesDone, pstore>>
    /\ LET me == [op |-> "create", userId |-> userId, title |-> title] IN
       IF fail
       THEN Return(p, me @@ [outcome |-> STORAGE_ERROR, code |-> CONNECTION_FAILURE])
       ELSE IF checkForDuplicateTitle(recipes, userId, title, 0)
       THEN Return(p, me @@ [outcome |-> DUPLICATE_TITLE, code |-> NoCode])
       ELSE Await(p, [pc |-> "create_insert", userId |-> userId,
                      title |-> title, content |-> content])

\* createRecipe's insert and its error handling
CreateRecipeInsert(p, fail) ==
    /\ Ready(p, "create_insert")
    /\ LET c == call[p]
           me == [op |-> "create", userId |-> c.userId, title |-> c.title]
           row == [user_id |-> c.userId, title |-> c.title,
                   content |-> c.content, update_counter |-> 1,
                   deleted_at |-> Null]
       IN
       IF fail
       THEN /\ Return(p, me @@ [outcome |-> classify(CONNECTION_FAILURE),
                                code |-> CONNECTION_FAILURE])
            /\ UNCHANGED <<recipes, updatesDone, pstore>>
       ELSE IF UniqueViolation(recipes, c.userId, c.title, 0)
       THEN /\ Return(p, me @@ [outcome |-> classify(UNIQUE_VIOLATION),
                                code |-> UNIQUE_VIOLATION])
            /\ UNCHANGED <<recipes, updatesDone, pstore>>
       ELSE /\ recipes' = Append(recipes, row)
            /\ UNCHANGED <<updatesDone, pstore>>
            /\ Return(p, me @@ [outcome |-> OK, code |-> NoCode,
                                dto |-> transformToDTO(Len(recipes) + 1, row)])

\* -------------------------------------------------------- getRecipeById

\* A lookup that leaves out .eq('user_id', userId)
getRecipeOfAnyone(rows, userId, recipeId) ==
    IF recipeId \in 1..Len(rows) /\ rows[recipeId].deleted_at = Null
    THEN [outcome |-> OK, code |-> NoCode,
          dto |-> transformToDTO(recipeId, rows[recipeId])]
    ELSE [outcome |-> NOT_FOUND, code |-> PGRST116]

\* The outcome of getRecipeById's single query: the DTO, or null
getRecipeById(rows, userId, recipeId) ==
    IF LiveRow(rows, userId, recipeId)
    THEN [outcome |-> OK, code |-> NoCode,
          dto |-> transformToDTO(recipeId, rows[recipeId])]
    ELSE [outcome |-> NOT_FOUND, code |-> PGRST116]

GetRecipeById(p, userId, recipeId, fail) ==
    /\ Ready(p, "idle")
    /\ UNCHANGED <<recipes, updatesDone, pstore>>
    /\ LET me == [op |-> "get", userId |-> userId, recipeId |-> recipeId] IN
       IF fail
       THEN Return(p, me @@ [outcome |-> STORAGE_ERROR, code |-> CONNECTION_FAILURE])
       ELSE Return(p, me @@ getRecipeById(recipes, userId, recipeId))

\* ---------------------------------------------------------- updateRecipe

\* updateRecipe's first guard: the recipe exists and belongs to the user
UpdateRecipeGet(p, userId, recipeId, title, content, fail) ==
    /\ Ready(p, "idle")
    /\ UNCHANGED <<recipes, updatesDone, pstore>>
    /\ LET me == [op |-> "update", userId |-> userId, recipeId |-> recipeId,
                  title |-> title]
           existingRecipe == getRecipeById(recipes, userId, recipeId)
       IN
       IF fail
       THEN Return(p, me @@ [outcome |-> STORAGE_ERROR, code |-> CONNECTION_FAILURE])
       ELSE IF existingRecipe.outcome = NOT_FOUND
       THEN Return(p, me @@ [outcome |-> NOT_FOUND, code |-> PGRST116])
       ELSE Await(p, [pc |-> "update_check", userId |-> userId,
                      recipeId |-> recipeId, title |-> title,
                      content |-> content,
                      update_counter |-> existingRecipe.dto.update_counter])

\* updateRecipe's second guard: no other recipe of the user has the title
UpdateRecipeCheck(p, fail) ==
    /\ Ready(p, "update_check")
    /\ UNCHANGED <<recipes, updatesDone, pstore>>
    /\ LET c == call[p]
           me == [op |-> "update", userId |-> c.userId,
                  recipeId |-> c.recipeId, title |-> c.title]
       IN
       IF fail
       THEN Return(p, me @@ [outcome |-> STORAGE_ERROR, code |-> CONNECTION_FAILURE])
       ELSE IF checkForDuplicateTitle(recipes, c.userId, c.title, c.recipeId)
       THEN Return(p, me @@ [outcome |-> DUPLICATE_TITLE, code |-> NoCode])
       ELSE Await(p, [c EXCEPT !.pc = "update_write"])

\* The counter updateRecipe writes: the one it read in its first guard, plus 1
NextUpdateCounter(stored, read) == read + 1

\* updateRecipe's write and its error handling
UpdateRecipeWrite(p, fail) ==
    /\ Ready(p, "update_write")
    /\ LET c == call[p]
           me == [op |-> "update", userId |-> c.userId,
                  recipeId |-> c.recipeId, title |-> c.title]
       IN
       IF fail
       THEN /\ Return(p, me @@ [outcome |-> classify(CONNECTION_FAILURE),
                                code |-> CONNECTION_FAILURE])
            /\ UNCHANGED <<recipes, updatesDone, pstore>>
       ELSE IF ~LiveRow(recipes, c.userId, c.recipeId)
       THEN \* no row matched: .single() reports PGRST116, which is not 23505
            /\ Return(p, me @@ [outcome |-> classify(PGRST116),
                                code |-> PGRST116])
            /\ UNCHANGED <<recipes, updatesDone, pstore>>
       ELSE IF UniqueViolation(recipes, c.userId, c.title, c.recipeId)
       THEN /\ Return(p, me @@ [outcome |-> classify(UNIQUE_VIOLATION),
                                code |-> UNIQUE_VIOLATION])
            /\ UNCHANGED <<recipes, updatesDone, pstore>>
       ELSE LET row == [recipes[c.recipeId] EXCEPT
                            !.title = c.title,
                            !.content = c.content,
                            !.update_counter =
                                NextUpdateCounter(@, c.update_counter)]
            IN /\ recipes' = [recipes EXCEPT ![c.recipeId] = row]
               /\ updatesDone' = [updatesDone EXCEPT ![c.recipeId] = @ + 1]
               /\ UNCHANGED pstore
               /\ Return(p, me @@ [outcome |-> OK, code |-> NoCode,
                                   dto |-> transformToDTO(c.recipeId, row)])

\* ---------------------------------------------------------- deleteRecipe

\* The conditional update without its deleted_at IS NULL condition
softDeleteAgain(rows, userId, recipeId, now) ==
    IF recipeId \in 1..Len(rows) /\ rows[recipeId].user_id = userId
    THEN [rows EXCEPT ![recipeId].deleted_at = now]
    ELSE rows

\* The conditional update without its user_id condition
softDeleteOfAnyone(rows, userId, recipeId, now) ==
    IF recipeId \in 1..Len(rows) /\ rows[recipeId].deleted_at = Null
    THEN [rows EXCEPT ![recipeId].deleted_at = now]
    ELSE rows

\* UPDATE recipes SET deleted_at = now()
\* WHERE id = $1 AND user_id = $2 AND deleted_at IS NULL RETURNING id
softDeleteRecipe(rows, userId, recipeId, now) ==
    IF LiveRow(rows, userId, recipeId)
    THEN [rows EXCEPT ![recipeId].deleted_at = now]
    ELSE rows

\* DELETE /api/recipes/{id}: 204 when a row was affected, 404 on NOT_FOUND
DeleteRecipe(p, userId, recipeId, now, fail) ==
    /\ Ready(p, "idle")
    /\ UNCHANGED <<updatesDone, pstore>>
    /\ LET me == [op |-> "delete", userId |-> userId, recipeId |-> recipeId]
           after == softDeleteRecipe(recipes, userId, recipeId, now)
       IN
       IF fail
       THEN /\ Return(p, me @@ [outcome |-> STORAGE_ERROR, code |-> CONNECTION_FAILURE])
            /\ UNCHANGED recipes
       ELSE IF after = recipes
       THEN /\ Return(p, me @@ [outcome |-> NOT_FOUND, code |-> PGRST116])
            /\ UNCHANGED recipes
       ELSE /\ recipes' = after
            /\ Return(p, me @@ [outcome |-> OK, code |-> NoCode])

\* ----------------------------------------------- ingredient normalisation

\* Strings are sequences of characters.  The letters that have a lower case
LowerOf == [M |-> "m", E |-> "e", H |-> "h", P |-> "p", A |-> "a", S |-> "s"]

RECURSIVE trimStart(_)
trimStart(str) ==
    IF str # <<>> /\ Head(str) = " " THEN trimStart(Tail(str)) ELSE str

RECURSIVE trimEnd(_)
trimEnd(str) ==
    IF str # <<>> /\ str[Len(str)] = " "
    THEN trimEnd(SubSeq(str, 1, Len(str) - 1))
    ELSE str

\* String.prototype.trim, as z.string().trim() applies it
trim(str) == trimEnd(trimStart(str))

\* String.prototype.toLowerCase
toLowerCase(str) ==
    [i \in 1..Len(str) |->
        IF str[i] \in DOMAIN LowerOf THEN LowerOf[str[i]] ELSE str[i]]

\* .max(100) of an ingredient name and of the array
MaxIngredientLen == 100
MaxIngredients == 100

VALIDATION_ERROR == "VALIDATION_ERROR"

\* forbiddenIngredientsArray's checks: every string, trimmed, is 1 to 100
\* characters long, and there are at most 100 of them
safeParse(raw) ==
    /\ Len(raw) <= MaxIngredients
    /\ \A i \in 1..Len(raw) :
           Len(trim(raw[i])) >= 1 /\ Len(trim(raw[i])) <= MaxIngredientLen

\* forbiddenIngredientsArray's output: every string trimmed, then lower-cased
forbiddenIngredientsArray(raw) ==
    [i \in 1..Len(raw) |-> toLowerCase(trim(raw[i]))]

\* Request bodies of PUT and POST /api/dietary-preferences
Honey == <<"h", "o", "n", "e", "y">>
Milk == <<"M", "i", "l", "k">>
PaddedMilk == <<" ", "m", "i", "l", "k", " ">>
Eggs == <<"E", "g", "g", "s">>
Blank == <<" ">>
Bodies ==
    { [diet_type |-> "none", forbidden_ingredients |-> <<>>],
      [diet_type |-> "vegan", forbidden_ingredients |-> <<Honey>>],
      [diet_type |-> "vegetarian",
       forbidden_ingredients |-> <<Milk, PaddedMilk, Eggs>>],
      [diet_type |-> "vegan", forbidden_ingredients |-> <<Blank>>] }

\* ------------------------------------------- the preferences tables

\* forbidden_ingredients has no unique constraint: the rows of one
\* preferences id are a bag of names, name -> number of rows
NoIngredients == [n \in {} |-> 0]

\* The rows an insert of the names of list adds
RowsOf(list) ==
    [n \in {list[i] : i \in 1..Len(list)} |->
        Cardinality({i \in 1..Len(list) : list[i] = n})]

\* An insert that stores no row
InsertNone(rows, more) == rows

InsertRows(rows, more) ==
    [n \in DOMAIN rows \cup DOMAIN more |->
        (IF n \in DOMAIN rows THEN rows[n] ELSE 0)
        + (IF n \in DOMAIN more THEN more[n] ELSE 0)]

\* The ids of the preferences rows of the user
PrefsOf(rows, userId) == {i \in 1..Len(rows) : rows[i].user_id = userId}

\* The table without its unique constraint
NoUserIdViolation(rows, userId) == FALSE

\* constraint dietary_preferences_user_id_key unique (user_id)
UserIdViolation(rows, userId) == PrefsOf(rows, userId) # {}

\* The row with its embedded forbidden_ingredients (ingredient_name)
PrefsDTO(rows, ings, id) ==
    [id |-> id, diet_type |-> rows[id].diet_type,
     version |-> rows[id].version, forbidden_ingredients |-> ings[id]]

\* getUserPreferences: one select with the ingredients embedded; .single()
\* reports PGRST116 unless exactly one row matches
getUserPreferences(rows, ings, userId) ==
    IF Cardinality(PrefsOf(rows, userId)) = 1
    THEN [outcome |-> OK, code |-> NoCode,
          dto |-> PrefsDTO(rows, ings, CHOOSE i \in PrefsOf(rows, userId) : TRUE)]
    ELSE [outcome |-> NOT_FOUND, code |-> PGRST116]

GetUserPreferences(p, userId, fail) ==
    /\ Ready(p, "idle")
    /\ UNCHANGED <<rstore, pstore>>
    /\ LET me == [op |-> "getPrefs", userId |-> userId] IN
       IF fail
       THEN Return(p, me @@ [outcome |-> STORAGE_ERROR,
                             code |-> CONNECTION_FAILURE])
       ELSE Return(p, me @@ getUserPreferences(prefs, ingredients, userId))

\* Callers inside a call that writes the preferences of the user
WritersInFlight(userId) ==
    {q \in Callers : call[q].pc # "idle" /\ call[q].userId = userId}

\* ------------------------------------------ upsertDietaryPreferences

\* PUT /api/dietary-preferences up to the service's first await: the body is
\* validated, then upsertDietaryPreferences reads the id and version of the
\* user's row (.maybeSingle(): an error when several rows match)
UpsertCheck(p, userId, body, fail) ==
    /\ Ready(p, "idle")
    /\ upsertsDone[userId] + Cardinality(WritersInFlight(userId)) < MaxVersion
    /\ \A i \in PrefsOf(prefs, userId) :
           prefs[i].version + Cardinality(WritersInFlight(userId)) < MaxVersion
    /\ UNCHANGED <<rstore, pstore>>
    /\ LET list == forbiddenIngredientsArray(body.forbidden_ingredients)
           command == [diet_type |-> body.diet_type,
                       forbidden_ingredients |-> list]
           pre == getUserPreferences(prefs, ingredients, userId)
           me == [op |-> "upsert", userId |-> userId, command |-> command,
                  pre |-> pre]
           existing == PrefsOf(prefs, userId)
       IN
       IF ~safeParse(body.forbidden_ingredients)
       THEN Return(p, [op |-> "upsert", userId |-> userId,
                       outcome |-> VALIDATION_ERROR, code |-> NoCode])
       ELSE IF fail
       THEN Return(p, me @@ [outcome |-> STORAGE_ERROR,
                             code |-> CONNECTION_FAILURE])
       ELSE IF Cardinality(existing) > 1
       THEN Return(p, me @@ [outcome |-> STORAGE_ERROR, code |-> PGRST116])
       ELSE IF existing = {}
       THEN Await(p, me @@ [pc |-> "prefs_rpc"])
       ELSE LET id == CHOOSE i \in existing : TRUE IN
            Await(p, me @@ [pc |-> "upsert_update", id |-> id,
                            version |-> prefs[id].version])

\* create_dietary_preferences: the row and its ingredient rows in one
\* function call, which is one transaction
PrefsRpc(p, fail) ==
    /\ Ready(p, "prefs_rpc")
    /\ UNCHANGED <<rstore, upsertsDone>>
    /\ LET c == call[p]
           me == [op |-> c.op, userId |-> c.userId, command |-> c.command,
                  pre |-> c.pre]
       IN
       IF fail
       THEN /\ Return(p, me @@ [outcome |-> STORAGE_ERROR,
                                code |-> CONNECTION_FAILURE])
            /\ UNCHANGED <<prefs, ingredients>>
       ELSE IF UserIdViolation(prefs, c.userId)
       THEN /\ Return(p, me @@ [outcome |-> STORAGE_ERROR,
                                code |-> UNIQUE_VIOLATION])
            /\ UNCHANGED <<prefs, ingredients>>
       ELSE /\ prefs' = Append(prefs, [user_id |-> c.userId,
                                       diet_type |-> c.command.diet_type,
                                       version |-> 1])
            /\ ingredients' =
                   Append(ingredients, RowsOf(c.command.forbidden_ingredients))
            /\ Await(p, me @@ [pc |-> "prefs_fetch", id |-> Len(prefs) + 1])

\* The created preferences are read back and returned
PrefsFetch(p, fail) ==
    /\ Ready(p, "prefs_fetch")
    /\ UNCHANGED <<rstore, pstore>>
    /\ LET c == call[p]
           me == [op |-> c.op, userId |-> c.userId, command |-> c.command,
                  pre |-> c.pre]
       IN
       IF fail
       THEN Return(p, me @@ [outcome |-> STORAGE_ERROR,
                             code |-> CONNECTION_FAILURE])
       ELSE Return(p, me @@ [outcome |-> OK, code |-> NoCode, isNew |-> TRUE,
                             dto |-> PrefsDTO(prefs, ingredients, c.id)])

\* The version the replace branch writes: the one read by the check, plus 1
NextVersion(stored, read) == read + 1

\* Replace branch, first call: the row's diet_type and version
UpsertUpdate(p, fail) ==
    /\ Ready(p, "upsert_update")
    /\ UNCHANGED <<rstore, ingredients, upsertsDone>>
    /\ LET c == call[p]
           me == [op |-> c.op, userId |-> c.userId, command |-> c.command,
                  pre |-> c.pre]
       IN
       IF fail
       THEN /\ Return(p, me @@ [outcome |-> STORAGE_ERROR,
                                code |-> CONNECTION_FAILURE])
            /\ UNCHANGED prefs
       ELSE /\ prefs' = [prefs EXCEPT
                            ![c.id].diet_type = c.command.diet_type,
                            ![c.id].version = NextVersion(@, c.version)]
            /\ Await(p, [c EXCEPT !.pc = "upsert_delete",
                                  !.version = prefs'[c.id].version])

\* A replace branch that merges: the old rows stay
KeepRows(rows) == rows

\* .delete().eq('dietary_preferences_id', existing.id): no row of the id is left
DeleteRows(rows) == NoIngredients

\* Replace branch, second call: every ingredient row of the preferences id
UpsertDelete(p, fail) ==
    /\ Ready(p, "upsert_delete")
    /\ UNCHANGED <<rstore, prefs, upsertsDone>>
    /\ LET c == call[p]
           me == [op |-> c.op, userId |-> c.userId, command |-> c.command,
                  pre |-> c.pre]
       IN
       IF fail
       THEN /\ Return(p, me @@ [outcome |-> STORAGE_ERROR,
                                code |-> CONNECTION_FAILURE])
            /\ UNCHANGED ingredients
       ELSE /\ ingredients' = [ingredients EXCEPT ![c.id] = DeleteRows(@)]
            /\ Await(p, [c EXCEPT !.pc = "upsert_insert"])

\* Replace branch, third call, made when the command names an ingredient: the
\* new rows.  The DTO is built from the updated row and the command
UpsertInsert(p, fail) ==
    /\ Ready(p, "upsert_insert")
    /\ UNCHANGED <<rstore, prefs>>
    /\ LET c == call[p]
           list == c.command.forbidden_ingredients
           me == [op |-> c.op, userId |-> c.userId, command |-> c.command,
                  pre |-> c.pre]
       IN
       /\ Len(list) = 0 => ~fail
       /\ IF fail
          THEN /\ Return(p, me @@ [outcome |-> STORAGE_ERROR,
                                   code |-> CONNECTION_FAILURE])
               /\ UNCHANGED <<ingredients, upsertsDone>>
          ELSE /\ ingredients' =
                      [ingredients EXCEPT ![c.id] = InsertRows(@, RowsOf(list))]
               /\ upsertsDone' = [upsertsDone EXCEPT ![c.userId] = @ + 1]
               /\ Return(p, me @@
                      [outcome |-> OK, code |-> NoCode, isNew |-> FALSE,
                       dto |-> [id |-> c.id,
                                diet_type |-> c.command.diet_type,
                                version |-> c.version,
                                forbidden_ingredients |-> RowsOf(list)]])

\* ------------------------------------------ createDietaryPreferences

PREFERENCES_EXIST == "PREFERENCES_EXIST"

\* POST /api/dietary-preferences up to the service's RPC: the body is
\* validated, then the existence check, whose error is not looked at
CreatePrefsCheck(p, userId, body, fail) ==
    /\ Ready(p, "idle")
    /\ UNCHANGED <<rstore, pstore>>
    /\ LET list == forbiddenIngredientsArray(body.forbidden_ingredients)
           command == [diet_type |-> body.diet_type,
                       forbidden_ingredients |-> list]
           pre == getUserPreferences(prefs, ingredients, userId)
           me == [op |-> "createPrefs", userId |-> userId,
                  command |-> command, pre |-> pre]
           existingPrefs == ~fail /\ Cardinality(PrefsOf(prefs, userId)) = 1
       IN
       IF ~safeParse(body.forbidden_ingredients)
       THEN Return(p, [op |-> "createPrefs", userId |-> userId,
                       outcome |-> VALIDATION_ERROR, code |-> NoCode])
       ELSE IF existingPrefs
       THEN Return(p, me @@ [outcome |-> PREFERENCES_EXIST, code |-> NoCode])
       ELSE Await(p, me @@ [pc |-> "prefs_rpc"])


\* --------------------------------------------------------- getUserRecipes

\* The characters of the titles
CharsOf == [Pasta |-> <<"P", "a", "s", "t", "a">>,
            pasta |-> <<"p", "a", "s", "t", "a">>,
            Soup  |-> <<"S", "o", "u", "p">>]

\* A query parameter that is not given
Undefined == -1
\* The defaults and the limits of RecipeListQueryParamsSchema
DefaultPage == 1
DefaultLimit == 20
MinLimit == 1
MaxLimit == 100
MaxSearchLen == 200

\* RecipeListQueryParamsSchema: the parsed parameters, search trimmed and
\* undefined (the empty string here) when nothing is left of it
RecipeListQueryParamsSchema(raw) ==
    [page   |-> IF raw.page = Undefined THEN DefaultPage ELSE raw.page,
     limit  |-> IF raw.limit = Undefined THEN DefaultLimit ELSE raw.limit,
     search |-> trim(raw.search)]

\* The refinements of RecipeListQueryParamsSchema
validQuery(q) ==
    /\ q.page >= 1
    /\ q.limit >= MinLimit /\ q.limit <= MaxLimit
    /\ Len(q.search) <= MaxSearchLen

\* LIKE: % stands for any run of characters, _ for any one character
RECURSIVE like(_, _)
like(str, pattern) ==
    IF pattern = <<>> THEN str = <<>>
    ELSE IF Head(pattern) = "%"
    THEN like(str, Tail(pattern)) \/ (str # <<>> /\ like(Tail(str), pattern))
    ELSE /\ str # <<>>
         /\ Head(pattern) = "_" \/ Head(pattern) = Head(str)
         /\ like(Tail(str), Tail(pattern))

\* ILIKE: LIKE without regard to case
ilike(str, pattern) == like(toLowerCase(str), toLowerCase(pattern))

\* The filters without .eq('user_id', userId)
MatchesOfAnyone(rows, userId, search, i) ==
    /\ rows[i].deleted_at = Null
    /\ search # <<>> => ilike(CharsOf[rows[i].title], <<"%">> \o search \o <<"%">>)

\* The filters without .is('deleted_at', null)
MatchesWithDeleted(rows, userId, search, i) ==
    /\ rows[i].user_id = userId
    /\ search # <<>> => ilike(CharsOf[rows[i].title], <<"%">> \o search \o <<"%">>)

\* The filters of the query: the user's non-deleted rows, and when a search
\* term is given those with title ILIKE %search%
Matches(rows, userId, search, i) ==
    /\ rows[i].user_id = userId
    /\ rows[i].deleted_at = Null
    /\ search # <<>> => ilike(CharsOf[rows[i].title], <<"%">> \o search \o <<"%">>)

\* The ids the query selects, in the order of .order('created_at',
\* { ascending: false }): a row created later has the higher id
RECURSIVE Selected(_, _, _, _)
Selected(rows, userId, search, n) ==
    IF n = 0 THEN <<>>
    ELSE IF Matches(rows, userId, search, n)
    THEN <<n>> \o Selected(rows, userId, search, n - 1)
    ELSE Selected(rows, userId, search, n - 1)

\* A count that takes every row of the user, deleted or not
countAll(rows, userId, search) ==
    Cardinality({i \in 1..Len(rows) : rows[i].user_id = userId})

\* { count: 'exact' }: the rows the filters select, whatever the range
exactCount(rows, userId, search) ==
    Len(Selected(rows, userId, search, Len(rows)))

\* .range(from, to): the rows at positions from..to, counted from 0
range(seq, from, to) ==
    SubSeq(seq, from + 1, IF to + 1 < Len(seq) THEN to + 1 ELSE Len(seq))

\* Math.ceil(totalCount / limit)
ceil(totalCount, limit) == (totalCount + limit - 1) \div limit

\* getUserRecipes: one query for the page and the count, then the metadata
getUserRecipes(rows, q, userId) ==
    LET offset == (q.page - 1) * q.limit
        ids == range(Selected(rows, userId, q.search, Len(rows)),
                     offset, offset + q.limit - 1)
        totalCount == exactCount(rows, userId, q.search)
    IN [recipes |-> [k \in 1..Len(ids) |-> transformToDTO(ids[k], rows[ids[k]])],
        pagination |-> [current_page |-> q.page,
                        total_pages |-> ceil(totalCount, q.limit),
                        total_count |-> totalCount,
                        limit |-> q.limit]]

\* GET /api/recipes: the query parameters are validated, then getUserRecipes
GetUserRecipes(p, userId, raw, fail) ==
    /\ Ready(p, "idle")
    /\ UNCHANGED <<recipes, updatesDone, pstore>>
    /\ LET q == RecipeListQueryParamsSchema(raw)
           me == [op |-> "list", userId |-> userId, raw |-> raw, query |-> q]
       IN
       IF ~validQuery(q)
       THEN Return(p, me @@ [outcome |-> VALIDATION_ERROR, code |-> NoCode])
       ELSE IF fail
       THEN Return(p, me @@ [outcome |-> STORAGE_ERROR, code |-> CONNECTION_FAILURE])
       ELSE Return(p, me @@ [outcome |-> OK, code |-> NoCode]
                         @@ getUserRecipes(recipes, q, userId))


\* ----------------------- GET /api/dietary-preferences, useDietaryPreferences

\* The user every GET /api/dietary-preferences reads the preferences of
DEFAULT_USER_ID == "U"

\* GET: 404 when getUserPreferences returns null, 500 when it throws, 200
\* with the preferences otherwise; body is null, or the preferences in <<_>>
GET(rows, ings, fail) ==
    LET preferences == getUserPreferences(rows, ings, DEFAULT_USER_ID) IN
    IF fail THEN [status |-> 500, body |-> <<>>]
    ELSE IF preferences.outcome = NOT_FOUND THEN [status |-> 404, body |-> <<>>]
    ELSE [status |-> 200, body |-> <<preferences.dto>>]

\* Response.ok
ok(response) == response.status \in 200..299

DEFAULT_PREFERENCES == [diet_type |-> "none", forbidden_ingredients |-> NoIngredients]

\* fetchPreferences of a hook just mounted: the state it leaves for a
\* response; null is <<>>, a value v is <<v>>
fetchPreferences(response) ==
    IF response.status = 401
    THEN [preferences |-> <<>>, isLoading |-> FALSE, error |-> <<>>]
    ELSE IF ~ok(response)
    THEN [preferences |-> <<>>, isLoading |-> FALSE,
          error |-> <<"Failed to fetch dietary preferences">>]
    ELSE [preferences |->
              IF response.body = <<>> THEN <<DEFAULT_PREFERENCES>>
              ELSE <<[diet_type |-> response.body[1].diet_type,
                      forbidden_ingredients |->
                          response.body[1].forbidden_ingredients]>>,
          isLoading |-> FALSE, error |-> <<>>]

\* The hook mounts: it requests GET /api/dietary-preferences, the handler
\* makes its one call to the store, and the hook takes the response
FetchPreferences(p, fail) ==
    /\ Ready(p, "idle")
    /\ UNCHANGED <<rstore, pstore>>
    /\ LET response == GET(prefs, ingredients, fail) IN
       /\ ret' = [op |-> "fetchPreferences", outcome |-> OK, code |-> NoCode,
                  response |-> response, hook |-> fetchPreferences(response)]
       /\ call' = call


\* ------------------------------------------------- the API entry points

\* GET /api/recipes/{id} of a request whose session is the one of user: the
\* handler passes DEFAULT_USER_ID to getRecipeById; 404 for null, 500 for a
\* throw, 200 with the recipe otherwise
ApiGetRecipe(p, user, recipeId, fail) ==
    /\ Ready(p, "idle")
    /\ UNCHANGED <<rstore, pstore>>
    /\ LET recipe == getRecipeById(recipes, DEFAULT_USER_ID, recipeId)
           me == [op |-> "GET /api/recipes/{id}", user |-> user,
                  userId |-> DEFAULT_USER_ID, recipeId |-> recipeId]
       IN
       IF fail
       THEN Return(p, me @@ [outcome |-> STORAGE_ERROR,
                             code |-> CONNECTION_FAILURE, status |-> 500])
       ELSE IF recipe.outcome = NOT_FOUND
       THEN Return(p, me @@ recipe @@ [status |-> 404])
       ELSE Return(p, me @@ recipe @@ [status |-> 200])

\* GET /api/dietary-preferences of a request whose session is the one of user
ApiGetPreferences(p, user, fail) ==
    /\ Ready(p, "idle")
    /\ UNCHANGED <<rstore, pstore>>
    /\ LET response == GET(prefs, ingredients, fail) IN
       Return(p, [op |-> "GET /api/dietary-preferences", user |-> user,
                  userId |-> DEFAULT_USER_ID, outcome |-> OK, code |-> NoCode,
                  response |-> response])


Init ==
    /\ recipes = <<>>
    /\ updatesDone = [i \in RecipeIds |-> 0]
    /\ prefs = <<>>
    /\ ingredients = <<>>
    /\ upsertsDone = [u \in Owners |-> 0]
    /\ call = [p \in Callers |-> Idle]
    /\ ret = NoRet

\* The response of the call that just ended is handed to its caller
Respond ==
    /\ ret # NoRet
    /\ ret' = NoRet
    /\ UNCHANGED <<rstore, pstore, call>>

RNext ==
    \/ Respond
    \/ \E p \in Callers :
        \/ \E u \in Owners, t \in Titles, c \in Contents, f \in BOOLEAN :
               CreateRecipeCheck(p, u, t, c, f)
        \/ \E f \in BOOLEAN : CreateRecipeInsert(p, f)
        \/ \E u \in Owners, i \in RecipeIds, f \in BOOLEAN :
               GetRecipeById(p, u, i, f)
        \/ \E u \in Owners, i \in RecipeIds, t \in Titles, c \in Contents,
              f \in BOOLEAN :
               /\ CanUpdate(i, MaxUpdates)
               /\ UpdateRecipeGet(p, u, i, t, c, f)
        \/ \E f \in BOOLEAN : UpdateRecipeCheck(p, f)
        \/ \E f \in BOOLEAN : UpdateRecipeWrite(p, f)
        \/ \E u \in Owners, i \in RecipeIds, now \in Times, f \in BOOLEAN :
               DeleteRecipe(p, u, i, now, f)

\* RecipeService under concurrent callers
Spec == Init /\ [][RNext]_vars

\* The query strings of GET /api/recipes
ListTitles == {"Pasta", "Soup"}
Queries ==
    [page : {Undefined, 2}, limit : {Undefined, 1, 2},
     search : {<<>>, <<"P", "A">>}]
    \cup {[page |-> Undefined, limit |-> 0, search |-> <<>>],
          [page |-> Undefined, limit |-> Undefined, search |-> <<" ", "_">>]}

\* One caller writes while the other lists
Writer == "c1"
Reader == "c2"

\* RecipeService: creates, updates and deletes with lists running between
\* their store calls
LNext ==
    \/ Respond
    \/ \E u \in Owners, t \in ListTitles, c \in Contents, f \in BOOLEAN :
           CreateRecipeCheck(Writer, u, t, c, f)
    \/ \E f \in BOOLEAN : CreateRecipeInsert(Writer, f)
    \/ \E u \in Owners, i \in RecipeIds, t \in ListTitles, c \in Contents,
          f \in BOOLEAN :
           /\ CanUpdate(i, MaxUpdates)
           /\ UpdateRecipeGet(Writer, u, i, t, c, f)
    \/ \E f \in BOOLEAN : UpdateRecipeCheck(Writer, f)
    \/ \E f \in BOOLEAN : UpdateRecipeWrite(Writer, f)
    \/ \E u \in Owners, i \in RecipeIds, now \in Times, f \in BOOLEAN :
           DeleteRecipe(Writer, u, i, now, f)
    \/ \E u \in Owners, raw \in Queries, f \in BOOLEAN :
           GetUserRecipes(Reader, u, raw, f)

SpecList == Init /\ [][LNext]_vars

\* The user whose requests run concurrently
SameUser == {"U"}

\* DietaryPreferencesService under concurrent requests of one user
PNext ==
    \/ Respond
    \/ \E p \in Callers :
        \/ \E u \in SameUser, f \in BOOLEAN : GetUserPreferences(p, u, f)
        \/ \E u \in SameUser, b \in Bodies, f \in BOOLEAN :
               UpsertCheck(p, u, b, f)
        \/ \E u \in SameUser, b \in Bodies, f \in BOOLEAN :
               CreatePrefsCheck(p, u, b, f)
        \/ \E f \in BOOLEAN : PrefsRpc(p, f)
        \/ \E f \in BOOLEAN : PrefsFetch(p, f)
        \/ \E f \in BOOLEAN : UpsertUpdate(p, f)
        \/ \E f \in BOOLEAN : UpsertDelete(p, f)
        \/ \E f \in BOOLEAN : UpsertInsert(p, f)

SpecPrefs == Init /\ [][PNext]_vars

\* One caller upserts while the other reads
PNextRead ==
    \/ Respond
    \/ \E u \in Owners, f \in BOOLEAN : GetUserPreferences(Reader, u, f)
    \/ \E u \in Owners, b \in Bodies, f \in BOOLEAN :
           UpsertCheck(Writer, u, b, f)
    \/ \E f \in BOOLEAN : PrefsRpc(Writer, f)
    \/ \E f \in BOOLEAN : PrefsFetch(Writer, f)
    \/ \E f \in BOOLEAN : UpsertUpdate(Writer, f)
    \/ \E f \in BOOLEAN : UpsertDelete(Writer, f)
    \/ \E f \in BOOLEAN : UpsertInsert(Writer, f)

SpecPrefsRead == Init /\ [][PNextRead]_vars

\* One caller upserts while the profile page of the other loads
PNextHook ==
    \/ Respond
    \/ \E f \in BOOLEAN : FetchPreferences(Reader, f)
    \/ \E u \in Owners, b \in Bodies, f \in BOOLEAN :
           UpsertCheck(Writer, u, b, f)
    \/ \E f \in BOOLEAN : PrefsRpc(Writer, f)
    \/ \E f \in BOOLEAN : PrefsFetch(Writer, f)
    \/ \E f \in BOOLEAN : UpsertUpdate(Writer, f)
    \/ \E f \in BOOLEAN : UpsertDelete(Writer, f)
    \/ \E f \in BOOLEAN : UpsertInsert(Writer, f)

SpecHook == Init /\ [][PNextHook]_vars

\* No call is in flight
AllIdle == \A q \in Callers : call[q] = Idle

\* DietaryPreferencesService with its calls one after the other
PNextSeq ==
    \/ Respond
    \/ \E p \in Callers :
        \/ \E u \in Owners, f \in BOOLEAN :
               AllIdle /\ GetUserPreferences(p, u, f)
        \/ \E u \in Owners, b \in Bodies, f \in BOOLEAN :
               AllIdle /\ UpsertCheck(p, u, b, f)
        \/ \E u \in Owners, b \in Bodies, f \in BOOLEAN :
               AllIdle /\ CreatePrefsCheck(p, u, b, f)
        \/ \E f \in BOOLEAN : PrefsRpc(p, f)
        \/ \E f \in BOOLEAN : PrefsFetch(p, f)
        \/ \E f \in BOOLEAN : UpsertUpdate(p, f)
        \/ \E f \in BOOLEAN : UpsertDelete(p, f)
        \/ \E f \in BOOLEAN : UpsertInsert(p, f)

SpecPrefsSeq == Init /\ [][PNextSeq]_vars

\* RecipeService with its calls one after the other
RNextSeq ==
    \/ Respond
    \/ \E p \in Callers :
        \/ \E u \in Owners, t \in Titles, c \in Contents, f \in BOOLEAN :
               AllIdle /\ CreateRecipeCheck(p, u, t, c, f)
        \/ \E f \in BOOLEAN : CreateRecipeInsert(p, f)
        \/ \E u \in Owners, i \in RecipeIds, f \in BOOLEAN :
               AllIdle /\ GetRecipeById(p, u, i, f)
        \/ \E u \in Owners, i \in RecipeIds, t \in Titles, c \in Contents,
              f \in BOOLEAN :
               /\ AllIdle /\ CanUpdate(i, MaxUpdates)
               /\ UpdateRecipeGet(p, u, i, t, c, f)
        \/ \E f \in BOOLEAN : UpdateRecipeCheck(p, f)
        \/ \E f \in BOOLEAN : UpdateRecipeWrite(p, f)
        \/ \E u \in Owners, i \in RecipeIds, now \in Times, f \in BOOLEAN :
               AllIdle /\ DeleteRecipe(p, u, i, now, f)

SpecSeq == Init /\ [][RNextSeq]_vars

\* Concurrent upserts of one user against a store none of whose calls fails
PNextRace ==
    \/ Respond
    \/ \E p \in Callers :
        \/ \E u \in SameUser, b \in Bodies : UpsertCheck(p, u, b, FALSE)
        \/ PrefsRpc(p, FALSE)
        \/ PrefsFetch(p, FALSE)
        \/ UpsertUpdate(p, FALSE)
        \/ UpsertDelete(p, FALSE)
        \/ UpsertInsert(p, FALSE)

SpecPrefsRace == Init /\ [][PNextRace]_vars

\* The inputs of the requests
ApiTitles == {"Pasta"}
ApiTimes == {1}
ApiBodies == {b \in Bodies : Len(b.forbidden_ingredients) < 2
                              /\ b.forbidden_ingredients # <<Blank>>}

\* The entry points as the handlers call the services: POST /api/recipes and
\* PUT /api/dietary-preferences with user.id of the session, PUT and DELETE
\* /api/recipes/{id} and both GETs with DEFAULT_USER_ID.  One caller writes
\* while the other reads
ANext ==
    \/ Respond
    \/ \E user \in Owners, t \in ApiTitles, c \in Contents, f \in BOOLEAN :
           CreateRecipeCheck(Writer, user, t, c, f)
    \/ \E f \in BOOLEAN : CreateRecipeInsert(Writer, f)
    \/ \E i \in RecipeIds, t \in ApiTitles, c \in Contents, f \in BOOLEAN :
           /\ CanUpdate(i, MaxUpdates)
           /\ UpdateRecipeGet(Writer, DEFAULT_USER_ID, i, t, c, f)
    \/ \E f \in BOOLEAN : UpdateRecipeCheck(Writer, f)
    \/ \E f \in BOOLEAN : UpdateRecipeWrite(Writer, f)
    \/ \E i \in RecipeIds, now \in ApiTimes, f \in BOOLEAN :
           DeleteRecipe(Writer, DEFAULT_USER_ID, i, now, f)
    \/ \E user \in Owners, b \in ApiBodies, f \in BOOLEAN :
           UpsertCheck(Writer, user, b, f)
    \/ \E f \in BOOLEAN : PrefsRpc(Writer, f)
    \/ \E f \in BOOLEAN : PrefsFetch(Writer, f)
    \/ \E f \in BOOLEAN : UpsertUpdate(Writer, f)
    \/ \E f \in BOOLEAN : UpsertDelete(Writer, f)
    \/ \E f \in BOOLEAN : UpsertInsert(Writer, f)
    \/ \E user \in Owners, i \in RecipeIds, f \in BOOLEAN :
           ApiGetRecipe(Reader, user, i, f)
    \/ \E user \in Owners, f \in BOOLEAN : ApiGetPreferences(Reader, user, f)

SpecApi == Init /\ [][ANext]_vars

\* RecipeService under concurrent callers, one title, three updates a recipe
CNext ==
    \/ Respond
    \/ \E p \in Callers :
        \/ \E u \in Owners, t \in ApiTitles, c \in Contents, f \in BOOLEAN :
               CreateRecipeCheck(p, u, t, c, f)
        \/ \E f \in BOOLEAN : CreateRecipeInsert(p, f)
        \/ \E u \in Owners, i \in RecipeIds, t \in ApiTitles, c \in Contents,
              f \in BOOLEAN :
               /\ CanUpdate(i, MaxOvertaken)
               /\ UpdateRecipeGet(p, u, i, t, c, f)
        \/ \E f \in BOOLEAN : UpdateRecipeCheck(p, f)
        \/ \E f \in BOOLEAN : UpdateRecipeWrite(p, f)
        \/ \E u \in Owners, i \in RecipeIds, now \in Times, f \in BOOLEAN :
               DeleteRecipe(p, u, i, now, f)

SpecCounter == Init /\ [][CNext]_vars

\* The query strings of the lists that run beside the writes of both stores
OwnerQueries ==
    {q \in Queries : q.page = Undefined /\ q.limit \in {Undefined, 1}
                     /\ q.search \in {<<>>, <<"P", "A">>}}

\* Both services for both owners, against a store none of whose calls fails:
\* one caller writes recipes and preferences while the other reads them
ONext ==
    \/ Respond
    \/ \E u \in Owners, t \in ApiTitles, c \in Contents :
           CreateRecipeCheck(Writer, u, t, c, FALSE)
    \/ CreateRecipeInsert(Writer, FALSE)
    \/ \E u \in Owners, i \in RecipeIds, t \in ApiTitles, c \in Contents :
           /\ CanUpdate(i, MaxUpdates)
           /\ UpdateRecipeGet(Writer, u, i, t, c, FALSE)
    \/ UpdateRecipeCheck(Writer, FALSE)
    \/ UpdateRecipeWrite(Writer, FALSE)
    \/ \E u \in Owners, i \in RecipeIds, now \in ApiTimes :
           DeleteRecipe(Writer, u, i, now, FALSE)
    \/ \E u \in Owners, b \in ApiBodies : UpsertCheck(Writer, u, b, FALSE)
    \/ PrefsRpc(Writer, FALSE)
    \/ PrefsFetch(Writer, FALSE)
    \/ UpsertUpdate(Writer, FALSE)
    \/ UpsertDelete(Writer, FALSE)
    \/ UpsertInsert(Writer, FALSE)
    \/ \E u \in Owners, i \in RecipeIds : GetRecipeById(Reader, u, i, FALSE)
    \/ \E u \in Owners, raw \in OwnerQueries :
           GetUserRecipes(Reader, u, raw, FALSE)
    \/ \E u \in Owners : GetUserPreferences(Reader, u, FALSE)

SpecOwners == Init /\ [][ONext]_vars

\* ------------------------------------------------------ claims: recipes

\* The non-deleted recipes of owner userId titled title
LiveTitled(userId, title) ==
    {i \in 1..Len(recipes) : /\ recipes[i].user_id = userId
                             /\ recipes[i].title = title
                             /\ recipes[i].deleted_at = Null}

\* C1: for every owner and title at most one non-deleted recipe holds the
\* pair, in every state any interleaving of createRecipe, updateRecipe and
\* deleteRecipe reaches, two creates that both passed the pre-check included.
C1_UniqueLiveTitle ==
    \A u \in Owners, t \in Titles : Cardinality(LiveTitled(u, t)) <= 1

\* A create that passed its pre-check and was then refused by the constraint
\* because another caller's row with the title, still live, came in between.
C1_Witness ==
    /\ ret.op = "create"
    /\ ret.outcome = DUPLICATE_TITLE
    /\ ret.code = UNIQUE_VIOLATION
    /\ LiveTitled(ret.userId, ret.title) # {}

\* C4: every recipe's update_counter is 1 plus the number of successful
\* updateRecipe calls on it.
C4_CounterCountsUpdates ==
    \A i \in 1..Len(recipes) :
        recipes[i].update_counter = 1 + updatesDone[i]

\* C5: a createRecipe answers DUPLICATE_TITLE only when the owner has a
\* non-deleted recipe with the title: a soft-deleted recipe never causes it.
C5_DeletedTitleReusable ==
    (ret.op = "create" /\ ret.outcome = DUPLICATE_TITLE)
        => LiveTitled(ret.userId, ret.title) # {}

\* C6: a deleteRecipe succeeds exactly on a recipe of the caller that is not
\* deleted and then sets its deleted_at; on a deleted one it answers NOT_FOUND
\* and changes nothing; a deleted_at once set keeps its value.  So of two
\* deletes of one recipe, one after the other or concurrent, one succeeds.
C6_DeleteOnce ==
    [][/\ \A i \in 1..Len(recipes) :
              recipes[i].deleted_at # Null
                  => recipes'[i].deleted_at = recipes[i].deleted_at
       /\ (ret = NoRet /\ ret'.op = "delete" /\ ret'.code # CONNECTION_FAILURE)
              => IF LiveRow(recipes, ret'.userId, ret'.recipeId)
                 THEN /\ ret'.outcome = OK
                      /\ recipes'[ret'.recipeId].deleted_at # Null
                 ELSE /\ ret'.outcome = NOT_FOUND
                      /\ recipes' = recipes]_vars

\* The second deleteRecipe of a caller's own, already deleted recipe
C6_Witness ==
    /\ ret.op = "delete"
    /\ ret.outcome = NOT_FOUND
    /\ ret.recipeId \in 1..Len(recipes)
    /\ recipes[ret.recipeId].user_id = ret.userId
    /\ recipes[ret.recipeId].deleted_at # Null

\* C11: a create that the store answers returns DUPLICATE_TITLE exactly when
\* the owner holds a non-deleted recipe with exactly that title, and then
\* inserts nothing; otherwise it succeeds with update_counter 1 and inserts
\* one row.  Rows of other owners play no part.
C11_CreateOutcome ==
    [][(ret = NoRet /\ ret'.op = "create" /\ ret'.code # CONNECTION_FAILURE)
          => IF LiveTitled(ret'.userId, ret'.title) # {}
             THEN /\ ret'.outcome = DUPLICATE_TITLE
                  /\ recipes' = recipes
             ELSE /\ ret'.outcome = OK
                  /\ ret'.dto.update_counter = 1
                  /\ Len(recipes') = Len(recipes) + 1]_vars

\* A row no caller can see: deleted, and of nobody among the callers
Hidden == [user_id |-> "nobody", title |-> "Pasta", content |-> "boil water",
           update_counter |-> 1, deleted_at |-> 1]

\* The store with every row the user cannot see replaced: the rows of other
\* owners and the soft-deleted rows
Visible(rows, userId) ==
    [i \in 1..Len(rows) |->
        IF rows[i].user_id = userId /\ rows[i].deleted_at = Null
        THEN rows[i] ELSE Hidden]

\* What a call that runs alone and that the store answers returns on a store:
\* getRecipeById, updateRecipe with its two guards and its write, deleteRecipe
outcomeOn(rows, r) ==
    IF r.op = "get" THEN getRecipeById(rows, r.userId, r.recipeId).outcome
    ELSE IF r.op = "delete"
    THEN IF softDeleteRecipe(rows, r.userId, r.recipeId, 1) = rows
         THEN NOT_FOUND ELSE OK
    ELSE IF getRecipeById(rows, r.userId, r.recipeId).outcome = NOT_FOUND
    THEN NOT_FOUND
    ELSE IF checkForDuplicateTitle(rows, r.userId, r.title, r.recipeId)
    THEN DUPLICATE_TITLE
    ELSE IF UniqueViolation(rows, r.userId, r.title, r.recipeId)
    THEN DUPLICATE_TITLE
    ELSE OK

\* C12: with the calls one after the other, a getRecipeById, updateRecipe or
\* deleteRecipe of a user returns the same outcome on the store and on the
\* store that differs from it only in the rows of other owners and in the
\* soft-deleted rows.
C12_SameOutcomeWhateverIsHidden ==
    [][(/\ ret = NoRet
        /\ ret'.op \in {"get", "update", "delete"}
        /\ ret'.code # CONNECTION_FAILURE)
          => /\ ret'.outcome = outcomeOn(recipes, ret')
             /\ ret'.outcome = outcomeOn(Visible(recipes, ret'.userId), ret')]_vars

C14_ConstraintMeansDuplicateTitle ==
    [][\A p \in Callers :
        (/\ call'[p] = Idle
         /\ ret'.code # CONNECTION_FAILURE
         /\ \/ /\ call[p].pc = "create_insert"
               /\ UniqueViolation(recipes, call[p].userId, call[p].title, 0)
            \/ /\ call[p].pc = "update_write"
               /\ LiveRow(recipes, call[p].userId, call[p].recipeId)
               /\ UniqueViolation(recipes, call[p].userId, call[p].title,
                                  call[p].recipeId))
          => /\ ret'.outcome = DUPLICATE_TITLE
             /\ ret'.code = UNIQUE_VIOLATION
             /\ recipes' = recipes]_vars

\* An update refused by the constraint after its pre-check had passed: another
\* non-deleted recipe of the user holds the title now
C14_Witness ==
    /\ ret.op = "update"
    /\ ret.code = UNIQUE_VIOLATION
    /\ LiveTitled(ret.userId, ret.title) \ {ret.recipeId} # {}

\* C15: a deleteRecipe on an id that does not exist, is of another owner or is
\* already deleted returns NOT_FOUND and changes no row; no deleteRecipe
\* changes a row other than the recipe of its id owned by its caller.
C15_DeleteTouchesOwnLiveRowOnly ==
    [][(ret = NoRet /\ ret'.op = "delete")
          => /\ \A i \in 1..Len(recipes) :
                    (i # ret'.recipeId \/ recipes[i].user_id # ret'.userId)
                        => recipes'[i] = recipes[i]
             /\ Len(recipes') = Len(recipes)
             /\ (/\ ~LiveRow(recipes, ret'.userId, ret'.recipeId)
                 /\ ret'.code # CONNECTION_FAILURE)
                   => /\ ret'.outcome = NOT_FOUND
                      /\ recipes' = recipes]_vars

\* A deleteRecipe by a user who does not own the recipe, answered NOT_FOUND
\* with the recipe still not deleted
C15_Witness ==
    /\ ret.op = "delete"
    /\ ret.outcome = NOT_FOUND
    /\ ret.recipeId \in 1..Len(recipes)
    /\ recipes[ret.recipeId].user_id # ret.userId
    /\ recipes[ret.recipeId].deleted_at = Null

\* The ids of the non-deleted recipes of a user
LiveOf(userId) ==
    {i \in 1..Len(recipes) : recipes[i].user_id = userId
                             /\ recipes[i].deleted_at = Null}

\* C16: a recipe whose deleted_at is set is never changed again; a list of
\* its owner, with or without a search term, neither returns it nor counts
\* it; an update on it that starts afterwards returns NOT_FOUND from the
\* first guard.
C16_DeletedIsGone ==
    [][/\ \A i \in 1..Len(recipes) :
            recipes[i].deleted_at # Null => recipes'[i] = recipes[i]
       /\ (ret = NoRet /\ ret'.op = "list" /\ ret'.outcome = OK)
            => /\ \A k \in 1..Len(ret'.recipes) :
                      ret'.recipes[k].id \in LiveOf(ret'.userId)
               /\ ret'.pagination.total_count <= Cardinality(LiveOf(ret'.userId))
               /\ ret'.query.search = <<>> =>
                      ret'.pagination.total_count = Cardinality(LiveOf(ret'.userId))
       /\ \A p \in Callers :
            /\ (call[p] = Idle /\ call'[p].pc = "update_check")
                 => recipes[call'[p].recipeId].deleted_at = Null
            /\ (/\ ret = NoRet /\ ret'.op = "update" /\ call' = call
                /\ ret'.code # CONNECTION_FAILURE)
                 => ret'.outcome = NOT_FOUND]_vars

\* A list of an owner who has a deleted recipe and a non-deleted one: the
\* page and the count hold the non-deleted one only
C16_Witness ==
    /\ ret.op = "list"
    /\ ret.outcome = OK
    /\ ret.query.search = <<>>
    /\ ret.pagination.total_count = 1
    /\ Len(ret.recipes) = 1
    /\ \E i \in 1..Len(recipes) : /\ recipes[i].user_id = ret.userId
                                  /\ recipes[i].deleted_at # Null

\* str holds sub as a run of consecutive characters
Contains(str, sub) ==
    \E i \in 0..(Len(str) - Len(sub)) : SubSeq(str, i + 1, i + Len(sub)) = sub

\* The ids, newest first, of the non-deleted recipes of the user whose title
\* holds the search term without regard to case, among the ids up to n
RECURSIVE Wanted(_, _, _)
Wanted(userId, search, n) ==
    IF n = 0 THEN <<>>
    ELSE IF /\ n \in LiveOf(userId)
            /\ Contains(toLowerCase(CharsOf[recipes[n].title]), toLowerCase(search))
    THEN <<n>> \o Wanted(userId, search, n - 1)
    ELSE Wanted(userId, search, n - 1)

\* C17: a list returns the recipes at positions (page-1)*limit .. page*limit-1
\* of the user's non-deleted recipes whose title contains the search term
\* without regard to case, newest first; the limit is 20 when none is given
\* and within 1..100; total_count is the number of those recipes and
\* total_pages its quotient by the limit, rounded up.
C17_ListPage ==
    (ret.op = "list" /\ ret.outcome = OK) =>
        LET q == ret.query
            all == Wanted(ret.userId, q.search, Len(recipes))
            first == (q.page - 1) * q.limit + 1
            last == IF q.page * q.limit < Len(all) THEN q.page * q.limit
                    ELSE Len(all)
        IN /\ q.limit = IF ret.raw.limit = Undefined THEN 20 ELSE ret.raw.limit
           /\ q.limit \in 1..100
           /\ ret.pagination.limit = q.limit
           /\ ret.pagination.current_page = q.page
           /\ Len(ret.recipes) <= 100
           /\ [k \in 1..Len(ret.recipes) |-> ret.recipes[k].id]
                  = SubSeq(all, first, last)
           /\ ret.pagination.total_count = Len(all)
           /\ ret.pagination.total_pages * q.limit >= Len(all)
           /\ (ret.pagination.total_pages - 1) * q.limit < Len(all)
                  \/ (Len(all) = 0 /\ ret.pagination.total_pages = 0)

\* C18: the page and the total_count of a list are of one snapshot of the
\* store, writes running between the lists: every returned recipe is a row
\* the filters select in that snapshot, as it is there, total_count is the
\* number of those rows, and the page holds no more than total_count.
C18_PageAndCountOneSnapshot ==
    (ret.op = "list" /\ ret.outcome = OK) =>
        LET matching == {i \in 1..Len(recipes) :
                            Matches(recipes, ret.userId, ret.query.search, i)}
        IN /\ Len(ret.recipes) <= ret.pagination.total_count
           /\ ret.pagination.total_count = Cardinality(matching)
           /\ \A k \in 1..Len(ret.recipes) :
                  /\ ret.recipes[k].id \in matching
                  /\ ret.recipes[k] =
                         transformToDTO(ret.recipes[k].id, recipes[ret.recipes[k].id])
           /\ \A k, l \in 1..Len(ret.recipes) :
                  ret.recipes[k].id = ret.recipes[l].id => k = l

\* A list answered between the store calls of an update, with a page of one
\* recipe out of two counted
C18_Witness ==
    /\ ret.op = "list"
    /\ ret.outcome = OK
    /\ call[Writer].pc \in {"update_check", "update_write"}
    /\ ret.pagination.total_count = 2
    /\ Len(ret.recipes) = 1

\* The texts of the store's own errors
RawTexts == {RawText(c) : c \in {UNIQUE_VIOLATION, PGRST116, CONNECTION_FAILURE}}

\* C19: a call the store failed ends in NOT_FOUND, DUPLICATE_TITLE or a
\* storage error, and the Error of a storage error holds no text of the
\* store's own error.
C19_StorageErrorIsOpaque ==
    /\ ret.code # NoCode
         => ret.outcome \in {NOT_FOUND, DUPLICATE_TITLE, STORAGE_ERROR}
    /\ ret.outcome = STORAGE_ERROR
         => \A k \in 1..Len(ret.message) : ret.message[k] \notin RawTexts

\* -------------------------------------------------- claims: preferences

\* The preferences of the user as getUserPreferences reads them now
Stored(userId) == getUserPreferences(prefs, ingredients, userId)

\* C2: an upsert on an existing row that fails leaves what getUserPreferences
\* returns as it was before the upsert: diet_type, version and ingredients.
C2_FailedUpsertKeepsState ==
    (ret.op = "upsert" /\ ret.outcome = STORAGE_ERROR /\ ret.pre.outcome = OK)
        => Stored(ret.userId) = ret.pre

\* What the upsert of a call in flight leaves when nothing else writes
PostState(c) ==
    [id |-> c.pre.dto.id, diet_type |-> c.command.diet_type,
     version |-> c.pre.dto.version + 1,
     forbidden_ingredients |-> RowsOf(c.command.forbidden_ingredients)]

\* C3: while an upsert replaces a non-empty ingredient set by a non-empty one,
\* a getUserPreferences of the owner returns the complete state of before the
\* upsert or the complete state of after it.
C3_ReaderSeesWholeState ==
    LET w == call[Writer] IN
    (/\ ret.op = "getPrefs" /\ ret.outcome = OK
     /\ w.pc \in {"upsert_update", "upsert_delete", "upsert_insert"}
     /\ w.userId = ret.userId
     /\ w.pre.dto.forbidden_ingredients # NoIngredients
     /\ w.command.forbidden_ingredients # <<>>)
        => ret.dto \in {w.pre.dto, PostState(w)}

\* C7: no two stored forbidden_ingredients rows of one preferences record
\* hold the same name.
C7_NoDuplicateNames ==
    \A id \in 1..Len(ingredients) :
        \A n \in DOMAIN ingredients[id] : ingredients[id][n] <= 1

\* C8: with no call in flight, the version of an owner's preferences is 1 plus
\* the number of successful upserts that replaced them.
C8_VersionCountsUpserts ==
    AllIdle => \A i \in 1..Len(prefs) :
                   prefs[i].version = 1 + upsertsDone[prefs[i].user_id]

\* C9: at most one dietary_preferences row per owner, in every state any
\* interleaving of upsertDietaryPreferences and createDietaryPreferences
\* reaches, two first upserts that both saw no row included.
C9_OnePrefsPerOwner ==
    \A u \in Owners : Cardinality(PrefsOf(prefs, u)) <= 1

\* An upsert that saw no row and whose insert the constraint then refused,
\* another caller's row having come in between.
C9_Witness ==
    /\ ret.op = "upsert"
    /\ ret.code = UNIQUE_VIOLATION
    /\ ret.pre.outcome = NOT_FOUND
    /\ PrefsOf(prefs, ret.userId) # {}

\* The names of a list of ingredients
NamesOf(list) == {list[i] : i \in 1..Len(list)}

\* C10: with the calls one after the other, a successful upsert for an owner
\* without a row creates it and returns version 1 and isNew; one for an owner
\* with a row returns the same id, isNew false and the version one higher,
\* and leaves stored that version, the new diet_type and exactly the names
\* of the new input.
C10_SequentialUpsert ==
    (ret.op = "upsert" /\ ret.outcome = OK) =>
        LET now == Stored(ret.userId) IN
        /\ now.outcome = OK
        /\ now.dto.id = ret.dto.id
        /\ now.dto.version = ret.dto.version
        /\ IF ret.pre.outcome = NOT_FOUND
           THEN /\ ret.isNew
                /\ ret.dto.version = 1
           ELSE /\ ~ret.isNew
                /\ ret.dto.id = ret.pre.dto.id
                /\ ret.dto.version = ret.pre.dto.version + 1
                /\ now.dto.diet_type = ret.command.diet_type
                /\ DOMAIN now.dto.forbidden_ingredients =
                       NamesOf(ret.command.forbidden_ingredients)

\* A successful upsert onto a row whose ingredients are not among the new ones
C10_Witness ==
    /\ ret.op = "upsert"
    /\ ret.outcome = OK
    /\ ~ret.isNew
    /\ DOMAIN ret.pre.dto.forbidden_ingredients # {}
    /\ DOMAIN ret.pre.dto.forbidden_ingredients
           \cap NamesOf(ret.command.forbidden_ingredients) = {}

\* C20: when the user has no preferences row, GET /api/dietary-preferences
\* answers 404 and the hook ends its loading with the default preferences
\* and no error.
C20_NoRowMeansDefaults ==
    (/\ ret.op = "fetchPreferences"
     /\ PrefsOf(prefs, DEFAULT_USER_ID) = {}
     /\ ret.response.status # 500)
        => /\ ret.response.status = 404
           /\ ~ret.hook.isLoading
           /\ ret.hook.preferences = <<DEFAULT_PREFERENCES>>
           /\ ret.hook.error = <<>>

\* --------------------------------------------------- claims: entry points

\* C21: every entry point acts for the user of the request's session: GET
\* /api/recipes/{id} returns a live recipe that user created through POST
\* /api/recipes, and GET /api/dietary-preferences returns the preferences
\* that user saved through PUT; none acts for another, fixed owner.
C21_CallerIdEverywhere ==
    /\ (/\ ret.op = "GET /api/recipes/{id}"
        /\ ret.status # 500
        /\ LiveRow(recipes, ret.user, ret.recipeId))
           => /\ ret.userId = ret.user
              /\ ret.status = 200
              /\ ret.dto.id = ret.recipeId
    /\ (/\ ret.op = "GET /api/dietary-preferences"
        /\ ret.response.status # 500
        /\ Cardinality(PrefsOf(prefs, ret.user)) = 1)
           => /\ ret.userId = ret.user
              /\ ret.response.status = 200
              /\ ret.response.body[1].id \in PrefsOf(prefs, ret.user)

\* C22: a createDietaryPreferences for a user who has a preferences row ends
\* in the conflict PREFERENCES_EXIST and leaves the row, its version and its
\* ingredients as they are; so does the later of two concurrent creates that
\* both passed the existence check.
C22_SecondCreateConflicts ==
    [][(/\ ret = NoRet
        /\ ret'.op = "createPrefs"
        /\ ret'.outcome # VALIDATION_ERROR
        /\ ret'.code # CONNECTION_FAILURE
        /\ ~\E p \in Callers : call[p].pc = "prefs_fetch" /\ call'[p] = Idle
        /\ PrefsOf(prefs, ret'.userId) # {})
           => /\ ret'.outcome = PREFERENCES_EXIST
              /\ UNCHANGED <<prefs, ingredients>>]_vars

\* ------------------------------------------------- claims: recipes, again

\* C23: with the calls one after the other, an updateRecipe on a live recipe
\* of the user returns DUPLICATE_TITLE exactly when another non-deleted recipe
\* of the user holds the title, and then no recipe is changed; otherwise, an
\* update that keeps the recipe's own title included, it succeeds.
C23_DuplicateExactlyOnLiveTitle ==
    [][(/\ ret = NoRet
        /\ ret'.op = "update"
        /\ ret'.code # CONNECTION_FAILURE
        /\ LiveRow(recipes, ret'.userId, ret'.recipeId))
          => LET others == LiveTitled(ret'.userId, ret'.title)
                               \ {ret'.recipeId}
             IN IF others # {}
                THEN /\ ret'.outcome = DUPLICATE_TITLE
                     /\ recipes' = recipes
                ELSE /\ ret'.outcome = OK
                     /\ recipes'[ret'.recipeId].title = ret'.title]_vars

\* C25: an updateRecipe whose recipe another caller soft-deleted after its
\* existence guard and before its write returns NOT_FOUND, neither a storage
\* error nor a success, and leaves the deleted recipe as it was.
C25_DeletedUnderUpdateIsNotFound ==
    [][\A p \in Callers :
        (/\ call[p].pc \in {"update_check", "update_write"}
         /\ call'[p] = Idle
         /\ ret'.code # CONNECTION_FAILURE
         /\ recipes[call[p].recipeId].deleted_at # Null)
           => /\ ret'.outcome = NOT_FOUND
              /\ recipes' = recipes]_vars

\* C26: no recipe row is ever removed, no row changes its id or owner, a
\* deleted_at that is set stays as it is, update_counter is at least 1 and
\* never decreases, and a delete changes no field other than deleted_at.
C26_RowsOnlyMoveForward ==
    [][/\ Len(recipes') >= Len(recipes)
       /\ \A i \in 1..Len(recipes) :
            /\ recipes'[i].user_id = recipes[i].user_id
            /\ recipes[i].deleted_at # Null
                 => recipes'[i].deleted_at = recipes[i].deleted_at
            /\ recipes'[i].update_counter >= recipes[i].update_counter
       /\ \A i \in 1..Len(recipes') : recipes'[i].update_counter >= 1
       /\ (ret = NoRet /\ ret'.op = "delete")
            => \A i \in 1..Len(recipes) :
                   [recipes'[i] EXCEPT !.deleted_at = recipes[i].deleted_at]
                       = recipes[i]]_vars

\* ----------------------------------------------------- claims: owners

\* The rows of the user, each with its id
OwnedRecipes(rows, userId) ==
    {<<i, rows[i]>> : i \in {j \in 1..Len(rows) : rows[j].user_id = userId}}

\* The preferences rows of the user, each with its id and ingredient rows
OwnedPrefs(rows, ings, userId) ==
    {<<i, rows[i], ings[i]>> : i \in PrefsOf(rows, userId)}

HiddenPrefs == [user_id |-> "nobody", diet_type |-> "none", version |-> 1]

\* The tables with every row of another owner replaced
RecipesOf(rows, userId) ==
    [i \in 1..Len(rows) |->
        IF rows[i].user_id = userId THEN rows[i] ELSE Hidden]
PreferencesOf(rows, userId) ==
    [i \in 1..Len(rows) |->
        IF rows[i].user_id = userId THEN rows[i] ELSE HiddenPrefs]
IngredientsOf(rows, ings, userId) ==
    [i \in 1..Len(rows) |->
        IF rows[i].user_id = userId THEN ings[i] ELSE NoIngredients]

\* What a read of the user returns when the rows of the other owners are not
\* what they are
aloneResult(r, rows, prows, ings) ==
    IF r.op = "get"
    THEN getRecipeById(RecipesOf(rows, r.userId), r.userId, r.recipeId)
    ELSE IF r.op = "list"
    THEN getUserRecipes(RecipesOf(rows, r.userId), r.query, r.userId)
    ELSE getUserPreferences(PreferencesOf(prows, r.userId),
                            IngredientsOf(prows, ings, r.userId),
                            r.userId)

\* C27: a call made for one owner leaves the recipes, the preferences row and
\* the ingredient rows of every other owner as they are, and what
\* getRecipeById, getUserRecipes and getUserPreferences return to a user is
\* what they return when the rows of the other owners are replaced.
C27_OwnersAreIsolated ==
    [][/\ \A v \in Owners :
            (\/ OwnedRecipes(recipes', v) # OwnedRecipes(recipes, v)
             \/ OwnedPrefs(prefs', ingredients', v)
                    # OwnedPrefs(prefs, ingredients, v))
               => IF call[Writer] # Idle THEN call[Writer].userId = v
                  ELSE ret' # NoRet /\ ret'.userId = v
       /\ (/\ ret = NoRet
           /\ ret'.op \in {"get", "list", "getPrefs"}
           /\ ret'.outcome \in {OK, NOT_FOUND})
             => LET r == aloneResult(ret', recipes', prefs', ingredients') IN
                \A k \in DOMAIN r : ret'[k] = r[k]]_vars

\* A list of V that follows writes of U: both hold a live recipe, and the
\* list returns V's alone
C27_Witness ==
    /\ ret.op = "list"
    /\ ret.userId = "V"
    /\ ret.outcome = OK
    /\ ret.pagination.total_count = 1
    /\ \E i \in 1..Len(recipes) :
           recipes[i].user_id = "U" /\ recipes[i].deleted_at = Null
    /\ PrefsOf(prefs, "U") # {}

\* ------------------------------------------- claims: preferences, again

\* C24: once the upserts of an owner have completed, whatever the interleaving
\* of their update, delete and insert calls, the stored diet_type and the
\* stored set of ingredient names are those of one upsert's normalized input,
\* never the union or a mix of two inputs.
C24_OneUpsertWins ==
    (AllIdle /\ ret.op = "upsert" /\ ret.outcome = OK) =>
        LET now == Stored(ret.userId) IN
        \E b \in Bodies :
            /\ safeParse(b.forbidden_ingredients)
            /\ now.dto.diet_type = b.diet_type
            /\ DOMAIN now.dto.forbidden_ingredients =
                   NamesOf(forbiddenIngredientsArray(b.forbidden_ingredients))

\* C28: with the calls one after the other, an upsert that ends in an error
\* for a user who had no preferences row when it started leaves the user
\* without a row, and without ingredient rows: the create branch inserts both
\* or neither.
C28_FailedCreateLeavesNothing ==
    (/\ ret.op = "upsert"
     /\ ret.outcome = STORAGE_ERROR
     /\ ret.pre.outcome = NOT_FOUND)
        => PrefsOf(prefs, ret.userId) = {}

\* C29: with the calls one after the other, what a successful upsert returns
\* is what getUserPreferences returns next: the same id, diet_type, version
\* and ingredient names, after the create branch and after the replace branch.
C29_ReturnedIsStored ==
    (ret.op = "upsert" /\ ret.outcome = OK) =>
        LET now == Stored(ret.userId) IN
        /\ now.outcome = OK
        /\ now.dto.id = ret.dto.id
        /\ now.dto.diet_type = ret.dto.diet_type
        /\ now.dto.version = ret.dto.version
        /\ now.dto.forbidden_ingredients = ret.dto.forbidden_ingredients

\* A replace branch that changed the diet_type and put ingredients in place
\* of others
C29_Witness ==
    /\ ret.op = "upsert"
    /\ ret.outcome = OK
    /\ ~ret.isNew
    /\ ret.dto.diet_type # ret.pre.dto.diet_type
    /\ ret.dto.forbidden_ingredients # NoIngredients
    /\ ret.pre.dto.forbidden_ingredients # NoIngredients
    /\ ret.dto.forbidden_ingredients # ret.pre.dto.forbidden_ingredients

====
